---- MODULE Spec2Model ----
(***************************************************************************)
(* InterruptionProcessor of sport_activities_features/interruptions:       *)
(* events(lines, classify) = parse_events (with __data_to_lines for a      *)
(* dict input) followed, when classify is True, by classify_event on each  *)
(* event in turn.                                                          *)
(*                                                                         *)
(* Times are whole seconds.  A segment's speed is the value in km/h that   *)
(* the TrackSegment constructor (exercise.py) derives; any value is        *)
(* allowed for it, so every derivation policy is covered.  Points lie on   *)
(* one meridian, 11 m apart per unit of latitude.  The optional altitude,  *)
(* heart-rate and distance arrays are not modelled.  time_interval is a    *)
(* number of seconds to record, so it is never negative.                   *)
(***************************************************************************)
EXTENDS Integers, Sequences, FiniteSets, TLC

VARIABLES tcx_data, derived_speed, time_interval, min_speed, classify,
          pc, error, lines, eventList, idx, possible_intersections, classified_events,
          result

vars == <<tcx_data, derived_speed, time_interval, min_speed, classify,
          pc, error, lines, eventList, idx, possible_intersections, classified_events,
          result>>

(* ------------------------------ bounds --------------------------------- *)
\* samples of a track given to parse_events alone, and to events()
MaxSamples == 5
MaxGeoSamples == 4
\* largest time_interval, in seconds
MaxInterval == 2
\* nodes in one query result
MaxFeatures == 2

\* program constants
DefaultMinSpeed == 2
ProximityMeters == 22
InitialMinDistance == 1000000

\* input values: seconds between consecutive samples, derived speeds,
\* thresholds, and the (latitude, longitude) pairs of samples and features
Deltas == {0, 1, 2}
SpeedValues == {DefaultMinSpeed - 1, DefaultMinSpeed}
MinSpeeds == {DefaultMinSpeed, DefaultMinSpeed + 1}
StillPositions == {<<0, 5>>}
TrackPositions == {<<0, 5>>, <<1, 5>>}
FeaturePositions == {<<0, 5>>, <<1, 5>>, <<2, 5>>}

(* ------------------------------ data ----------------------------------- *)
Abs(x) == IF x < 0 THEN -x ELSE x

SeqsUpTo(S, n) == UNION {[1..m -> S] : m \in 0..n}

\* a DotMap point: latitude, longitude, time
Point(lat, lon, t) == [latitude |-> lat, longitude |-> lon, time |-> t]

\* TrackSegment(point_a, point_b, prev_speed); speed is the constructor's
\* derived value, prev_speed is <<>> for None
TrackSegment(point_a, point_b, prev_speed, speed) ==
    [point_a |-> point_a, point_b |-> point_b,
     prev_speed |-> prev_speed, speed |-> speed]

\* an overpy node of the query result
Node(lat, lon) == [lat |-> lat, lon |-> lon]

EventLocation(longitude, latitude) ==
    [longitude |-> longitude, latitude |-> latitude]

EventDetail(location, type) == [location |-> location, type |-> type]

\* ExerciseEvent(pre_event, event, post_event, event_detail, event_type);
\* event_detail is <<>> while unset, <<detail>> once set
ExerciseEvent(pre_event, event, post_event, event_detail, event_type) ==
    [pre_event |-> pre_event, event |-> event, post_event |-> post_event,
     event_detail |-> event_detail, event_type |-> event_type]

\* geopy distance.distance(a, b).meters between two (latitude, longitude)
\* pairs of the modelled grid: points are 11 m apart per unit
Distance(lat1, lon1, lat2, lon2) ==
    11 * (Abs(lat1 - lat2) + Abs(lon1 - lon2))

(* ------------------------- __data_to_lines ----------------------------- *)
DataToLinesStep_SameSample(data, speeds, built, i) ==
    LET point_a == Point(data.positions[i][1], data.positions[i][2],
                         data.timestamps[i])
        prev_speed == IF i > 1 THEN <<built[Len(built)].speed>> ELSE <<>>
    IN  TrackSegment(point_a, point_a, prev_speed, speeds[i])

\* the segment appended in iteration i (0-based, i # 0) of the loop, given
\* the segments built so far
DataToLinesStep(data, speeds, built, i) ==
    LET point_a == Point(data.positions[i][1], data.positions[i][2],
                         data.timestamps[i])
        point_b == Point(data.positions[i + 1][1], data.positions[i + 1][2],
                         data.timestamps[i + 1])
        prev_speed == IF i > 1 THEN <<built[Len(built)].speed>> ELSE <<>>
    IN  TrackSegment(point_a, point_b, prev_speed, speeds[i])

RECURSIVE DataToLinesLoop(_, _, _, _)
DataToLinesLoop(data, speeds, built, i) ==
    IF i >= Len(data.positions) THEN built
    ELSE IF i # 0
         THEN DataToLinesLoop(data, speeds,
                  Append(built, DataToLinesStep(data, speeds, built, i)),
                  i + 1)
         ELSE DataToLinesLoop(data, speeds, built, i + 1)

DataToLines(data, speeds) == DataToLinesLoop(data, speeds, <<>>, 0)

(* --------------------------- parse_events ------------------------------ *)
BelowThreshold_AtThreshold(seg, minSpeed) == seg.speed <= minSpeed

BelowThreshold(seg, minSpeed) == seg.speed < minSpeed

DetermineEventType_StopFirst(index_start, index_end, ls) ==
    IF index_end >= Len(ls) - 1 THEN "EXERCISE_STOP"
    ELSE IF index_start = 0 THEN "EXERCISE_START"
    ELSE "EXERCISE_PAUSE"

DetermineEventType(index_start, index_end, ls) ==
    IF index_start = 0 THEN "EXERCISE_START"
    ELSE IF index_end >= Len(ls) - 1 THEN "EXERCISE_STOP"
    ELSE "EXERCISE_PAUSE"

\* inner while of lines 113-116: st is [index, event, mid_end], event the
\* segments added so far by add_event
RECURSIVE RunScan(_, _, _)
RunScan(ls, st, minSpeed) ==
    IF st.index < Len(ls) /\ BelowThreshold(ls[st.index + 1], minSpeed)
    THEN RunScan(ls,
                 [index |-> st.index + 1,
                  event |-> Append(st.event, ls[st.index + 1]),
                  mid_end |-> ls[st.index + 1].point_b.time],
                 minSpeed)
    ELSE st

PostEnd(mid_end, interval) == mid_end + (interval + 1)

PreStart_After(mid_start, interval) == mid_start + interval

PreStart(mid_start, interval) == mid_start - interval

InPostWindow_Inclusive(seg, post_end) == seg.point_a.time <= post_end

InPostWindow(seg, post_end) == seg.point_a.time < post_end

\* lines 126-129
RECURSIVE PostEvent(_, _, _, _)
PostEvent(ls, indexPost, post_end, acc) ==
    IF indexPost < Len(ls) /\ InPostWindow(ls[indexPost + 1], post_end)
    THEN PostEvent(ls, indexPost + 1, post_end,
                   Append(acc, ls[indexPost + 1]))
    ELSE acc

RECURSIVE PreSkip_SkipsBoundary(_, _, _)
PreSkip_SkipsBoundary(ls, indexStartPre, pre_start) ==
    IF indexStartPre >= Len(ls) THEN Len(ls)
    ELSE IF ls[indexStartPre + 1].point_a.time <= pre_start
         THEN PreSkip_SkipsBoundary(ls, indexStartPre + 1, pre_start)
         ELSE indexStartPre

\* lines 130-132: the loop reads lines[indexStartPre] with no bound check;
\* the result len(lines) stands for the IndexError of reading past the end
RECURSIVE PreSkip(_, _, _)
PreSkip(ls, indexStartPre, pre_start) ==
    IF indexStartPre >= Len(ls) THEN Len(ls)
    ELSE IF ls[indexStartPre + 1].point_a.time < pre_start
         THEN PreSkip(ls, indexStartPre + 1, pre_start)
         ELSE indexStartPre

InPreWindow_Reversed(seg, mid_start) == seg.point_a.time >= mid_start

InPreWindow(seg, mid_start) == seg.point_a.time <= mid_start

\* lines 134-137
RECURSIVE PreEvent(_, _, _, _)
PreEvent(ls, indexStartPre, mid_start, acc) ==
    IF indexStartPre < Len(ls) /\ InPreWindow(ls[indexStartPre + 1], mid_start)
    THEN PreEvent(ls, indexStartPre + 1, mid_start,
                  Append(acc, ls[indexStartPre + 1]))
    ELSE acc

\* line 139, reached with index just past the run: the outer loop steps
\* over the segment that closed the run
NextIndex(index) == index + 1

\* lines 110-138 for a run that starts at index (0-based): the finished
\* event, the index the outer loop resumes at, and whether the pre-window
\* scan read past the end of lines
ParseOne(ls, index, minSpeed, interval) ==
    LET index_start == index
        mid_start   == ls[index + 1].point_a.time
        run         == RunScan(ls, [index |-> index, event |-> <<>>,
                                    mid_end |-> mid_start], minSpeed)
        index_end   == run.index - 1
        mid_end     == run.mid_end
        post_end    == PostEnd(mid_end, interval)
        pre_start   == PreStart(mid_start, interval)
        skip        == PreSkip(ls, 0, pre_start)
    IN  [event |-> ExerciseEvent(
                       PreEvent(ls, skip, mid_start, <<>>),
                       run.event,
                       PostEvent(ls, run.index, post_end, <<>>),
                       <<>>,
                       DetermineEventType(index_start, index_end, ls)),
         next |-> NextIndex(run.index),
         raised |-> skip >= Len(ls)]

\* outer while of lines 106-139
RECURSIVE ParseLoop(_, _, _, _, _)
ParseLoop(ls, index, minSpeed, interval, acc) ==
    IF index >= Len(ls) THEN [events |-> acc, raised |-> FALSE]
    ELSE IF BelowThreshold(ls[index + 1], minSpeed)
         THEN LET one == ParseOne(ls, index, minSpeed, interval)
              IN  IF one.raised THEN [events |-> acc, raised |-> TRUE]
                  ELSE ParseLoop(ls, one.next, minSpeed, interval,
                                 Append(acc, one.event))
         ELSE ParseLoop(ls, index + 1, minSpeed, interval, acc)

ParseEventsOf(ls, minSpeed, interval) ==
    ParseLoop(ls, 0, minSpeed, interval, <<>>)

(* -------------------------- classify_event ----------------------------- *)
CloserMatch_NonStrict(calculated_distance, min_distance) ==
    calculated_distance < ProximityMeters /\ calculated_distance <= min_distance

CloserMatch(calculated_distance, min_distance) ==
    calculated_distance < ProximityMeters /\ calculated_distance < min_distance

\* lines 159-161: the detail built for a matched node, with
\* longitude=node.lat and latitude=node.lon as the call passes them
DetailOf(node) ==
    EventDetail(EventLocation(node.lat, node.lon), "INTERSECTION")

\* body of the inner loop (lines 153-161) for event segment e and node i
\* (both 0-based); st is [min_distance, event_detail]
ClassifyStep(event, nodes, e, i, st) ==
    LET calculated_distance ==
            Distance(event.event[e + 1].point_a.latitude,
                     event.event[e + 1].point_a.longitude,
                     nodes[i + 1].lat, nodes[i + 1].lon)
    IN  IF CloserMatch(calculated_distance, st.min_distance)
        THEN [min_distance |-> calculated_distance,
              event_detail |-> <<DetailOf(nodes[i + 1])>>]
        ELSE st

\* the two for loops of lines 150-152
RECURSIVE ClassifyLoop(_, _, _, _, _)
ClassifyLoop(event, nodes, e, i, st) ==
    IF e >= Len(event.event) THEN st
    ELSE IF i >= Len(nodes) THEN ClassifyLoop(event, nodes, e + 1, 0, st)
    ELSE ClassifyLoop(event, nodes, e, i + 1,
                      ClassifyStep(event, nodes, e, i, st))

\* classify_event when the query returned nodes
ClassifyEventOf(event, nodes) ==
    LET st == ClassifyLoop(event, nodes, 0, 0,
                  [min_distance |-> InitialMinDistance,
                   event_detail |-> event.event_detail])
    IN  [event EXCEPT !.event_detail = st.event_detail]

(* ------------------------------ events --------------------------------- *)
RECURSIVE Timestamps(_, _)
Timestamps(deltas, n) ==
    IF n = 0 THEN <<>>
    ELSE IF n = 1 THEN <<0>>
    ELSE LET prev == Timestamps(deltas, n - 1)
         IN  Append(prev, prev[n - 1] + deltas[n - 1])

InitCommon ==
    /\ classify \in BOOLEAN
    /\ pc = "call"
    /\ error = "none"
    /\ lines = <<>>
    /\ eventList = <<>>
    /\ idx = 0
    /\ possible_intersections = <<>>
    /\ classified_events = <<>>
    /\ result = <<>>

\* tracks with every spacing of the timestamps, at one position
InitParse ==
    /\ \E n \in 0..MaxSamples :
        /\ \E d \in [1..(IF n = 0 THEN 0 ELSE n - 1) -> Deltas] :
               tcx_data = [positions |-> [k \in 1..n |->
                                              CHOOSE q \in StillPositions : TRUE],
                           timestamps |-> Timestamps(d, n)]
        /\ derived_speed \in [1..(IF n = 0 THEN 0 ELSE n - 1) -> SpeedValues]
    /\ time_interval \in 0..MaxInterval
    /\ min_speed \in MinSpeeds
    /\ InitCommon

\* tracks sampled once a second, at every position
Init ==
    /\ \E n \in 0..MaxGeoSamples :
        /\ \E p \in [1..n -> TrackPositions] :
               tcx_data = [positions |-> p,
                           timestamps |-> [k \in 1..n |-> k - 1]]
        /\ derived_speed \in [1..(IF n = 0 THEN 0 ELSE n - 1) -> SpeedValues]
    /\ time_interval = 0
    /\ min_speed = DefaultMinSpeed
    /\ InitCommon

\* parse_events(tcx_data) called on its own
ParseEventsCall ==
    /\ pc = "call"
    /\ LET ls == DataToLines(tcx_data, derived_speed)
           r  == ParseEventsOf(ls, min_speed, time_interval)
       IN  /\ lines' = ls
           /\ IF r.raised
              THEN /\ pc' = "raised"
                   /\ error' = "IndexError"
                   /\ UNCHANGED <<eventList, result>>
              ELSE /\ pc' = "done"
                   /\ eventList' = r.events
                   /\ result' = r.events
                   /\ UNCHANGED error
    /\ UNCHANGED <<tcx_data, derived_speed, time_interval, min_speed,
                   classify, idx, possible_intersections, classified_events>>

\* events() line 86: parse_events, with __data_to_lines for the dict
ParseEvents ==
    /\ pc = "call"
    /\ LET ls == DataToLines(tcx_data, derived_speed)
           r  == ParseEventsOf(ls, min_speed, time_interval)
       IN  /\ lines' = ls
           /\ IF r.raised
              THEN /\ pc' = "raised"
                   /\ error' = "IndexError"
                   /\ UNCHANGED eventList
              ELSE /\ pc' = IF classify THEN "classify" ELSE "return"
                   /\ eventList' = r.events
                   /\ UNCHANGED error
    /\ UNCHANGED <<tcx_data, derived_speed, time_interval, min_speed,
                   classify, idx, possible_intersections, classified_events, result>>

\* one iteration of the loop of lines 89-90 in which the query returns
ClassifyEvent ==
    /\ pc = "classify"
    /\ idx < Len(eventList)
    /\ \E found \in SeqsUpTo({Node(f[1], f[2]) : f \in FeaturePositions},
                              MaxFeatures) :
        LET e == ClassifyEventOf(eventList[idx + 1], found)
        IN  /\ eventList' = [eventList EXCEPT ![idx + 1] = e]
            /\ classified_events' = Append(classified_events, e)
            /\ possible_intersections' = found
    /\ idx' = idx + 1
    /\ UNCHANGED <<tcx_data, derived_speed, time_interval, min_speed,
                   classify, pc, error, lines, result>>

\* one iteration in which Overpass.identify_intersections raises: nothing
\* in classify_event or events catches it
QueryFails ==
    /\ pc = "classify"
    /\ idx < Len(eventList)
    /\ pc' = "raised"
    /\ error' = "QueryError"
    /\ UNCHANGED <<tcx_data, derived_speed, time_interval, min_speed,
                   classify, lines, eventList, idx, possible_intersections,
                   classified_events, result>>

\* lines 91-92
Return ==
    /\ IF classify THEN pc = "classify" /\ idx >= Len(eventList)
                   ELSE pc = "return"
    /\ result' = IF classify THEN classified_events ELSE eventList
    /\ pc' = "done"
    /\ UNCHANGED <<tcx_data, derived_speed, time_interval, min_speed,
                   classify, error, lines, eventList, idx, possible_intersections,
                   classified_events>>

Next == ParseEvents \/ ClassifyEvent \/ QueryFails \/ Return

Spec == Init /\ [][Next]_vars

NextParse == ParseEventsCall

SpecParse == InitParse /\ [][NextParse]_vars

(* ------------------------- reading the result -------------------------- *)
\* parse_events has returned its list
Parsed == pc \in {"classify", "return", "done"}

\* segment i (1-based) is below the threshold
Sub(i) == lines[i].speed < min_speed

StartTime(i) == lines[i].point_a.time

\* s..e (1-based, inclusive) is a maximal run of sub-threshold segments
IsMaxRun(s, e) ==
    /\ s <= e
    /\ \A i \in s..e : Sub(i)
    /\ s = 1 \/ ~Sub(s - 1)
    /\ e = Len(lines) \/ ~Sub(e + 1)

\* the indices at which a maximal run starts; each starts exactly one
RunStarts == {s \in 1..Len(lines) : Sub(s) /\ (s = 1 \/ ~Sub(s - 1))}

\* the k-th maximal run <<s, e>> in order of start index
RunOf(k) ==
    LET s == CHOOSE x \in RunStarts :
                 Cardinality({q \in RunStarts : q < x}) = k - 1
        e == CHOOSE y \in s..Len(lines) : IsMaxRun(s, y)
    IN  <<s, e>>

RunsMatch == Len(eventList) = Cardinality(RunStarts)

TypeAt(r) ==
    IF r[1] = 1 THEN "EXERCISE_START"
    ELSE IF r[2] = Len(lines) THEN "EXERCISE_STOP"
    ELSE "EXERCISE_PAUSE"

NonDecreasing(segs) ==
    \A i \in 1..(Len(segs) - 1) :
        segs[i].point_a.time <= segs[i + 1].point_a.time

StrictlyIncreasing(ts) == \A i \in 1..(Len(ts) - 1) : ts[i] < ts[i + 1]

\* the event classify_event returned last and the nodes it was given
LastClassified == classified_events[Len(classified_events)]

Pairs ==
    {p \in (1..Len(LastClassified.event)) \X (1..Len(possible_intersections)) :
        TRUE}

PairDistance(p) ==
    Distance(LastClassified.event[p[1]].point_a.latitude,
             LastClassified.event[p[1]].point_a.longitude,
             possible_intersections[p[2]].lat,
             possible_intersections[p[2]].lon)

Near == {p \in Pairs : PairDistance(p) < ProximityMeters}

Closest == {p \in Pairs : \A q \in Pairs : PairDistance(p) <= PairDistance(q)}

\* scan order: outer loop over core segments, inner loop over nodes
ScannedBefore(p, q) == p[1] < q[1] \/ (p[1] = q[1] /\ p[2] < q[2])

FirstClosest ==
    CHOOSE p \in Closest : \A q \in Closest \ {p} : ScannedBefore(p, q)

(* ------------------------------ claims --------------------------------- *)
\* C1: parse_events returns, in order of start index, exactly the maximal
\* contiguous runs of segments whose speed is strictly below the threshold:
\* as many events as there are maximal runs, and the k-th event's `event`
\* list is lines[s..e] of the k-th run (so it is non-empty, bounded on both
\* sides by segments at or above the threshold, and runs do not overlap).
C1_MaximalRuns ==
    Parsed =>
        /\ RunsMatch
        /\ \A k \in 1..Len(eventList) :
               eventList[k].event = SubSeq(lines, RunOf(k)[1], RunOf(k)[2])

\* C1 witness: two events, one run of length 1 and one longer run
C1_Witness ==
    /\ Parsed
    /\ Len(eventList) = 2
    /\ \E k \in 1..2 : Len(eventList[k].event) = 1
    /\ \E k \in 1..2 : Len(eventList[k].event) >= 2

\* C2 as stated: a run starting at index 0 is START, a run ending at the
\* last index is STOP, every other run is PAUSE.
C2_Original ==
    Parsed =>
        /\ RunsMatch
        /\ \A k \in 1..Len(eventList) :
               LET r == RunOf(k)
                   t == eventList[k].event_type
               IN  /\ r[1] = 1 => t = "EXERCISE_START"
                   /\ r[2] = Len(lines) => t = "EXERCISE_STOP"
                   /\ (r[1] # 1 /\ r[2] # Len(lines)) => t = "EXERCISE_PAUSE"

\* C2 amended: a run starting at index 0 is START (also when it ends at the
\* last index); a run that does not start at index 0 and ends at the last
\* index is STOP; every other run is PAUSE.
C2_TypeByPosition ==
    Parsed =>
        /\ RunsMatch
        /\ \A k \in 1..Len(eventList) :
               eventList[k].event_type = TypeAt(RunOf(k))

\* C2 witness: a run covering a whole track of several segments
C2_Witness ==
    /\ Parsed
    /\ Len(lines) >= 2
    /\ Len(eventList) = 1
    /\ Len(eventList[1].event) = Len(lines)
    /\ eventList[1].event_type = "EXERCISE_START"

\* C6: for chronological timestamps and a non-negative window, the start
\* times of pre_event + event + post_event are non-decreasing.
C6_ChronologicalContext ==
    Parsed =>
        \A k \in 1..Len(eventList) :
            NonDecreasing(eventList[k].pre_event \o eventList[k].event
                          \o eventList[k].post_event)

\* C6 witness: an event with several segments before, in and after the run
C6_Witness ==
    /\ Parsed
    /\ \E k \in 1..Len(eventList) :
           /\ Len(eventList[k].pre_event) >= 2
           /\ Len(eventList[k].event) >= 2
           /\ Len(eventList[k].post_event) >= 1

\* C8: post_event is the longest prefix of lines[e+1..] whose segments all
\* start strictly before point_b.time of lines[e] + time_interval + 1 (empty
\* when e is the last index); the event list is still the run and the type
\* is still the one its position gives.
C8_PostWindow ==
    Parsed =>
        /\ RunsMatch
        /\ \A k \in 1..Len(eventList) :
               LET r == RunOf(k)
                   e == r[2]
                   bound == lines[e].point_b.time + time_interval + 1
               IN  /\ \E m \in 0..(Len(lines) - e) :
                          /\ eventList[k].post_event
                                 = SubSeq(lines, e + 1, e + m)
                          /\ \A i \in (e + 1)..(e + m) : StartTime(i) < bound
                          /\ e + m < Len(lines) => StartTime(e + m + 1) >= bound
                   /\ eventList[k].event = SubSeq(lines, r[1], e)
                   /\ eventList[k].event_type = TypeAt(r)

\* C8 witness: a post window that holds a sub-threshold segment of the next
\* event and stops before the end of the track
C8_Witness ==
    /\ Parsed
    /\ RunsMatch
    /\ \E k \in 1..Len(eventList) :
           LET e == RunOf(k)[2]
               m == Len(eventList[k].post_event)
           IN  /\ e + m < Len(lines)
               /\ \E i \in (e + 1)..(e + m) : Sub(i)

\* C9: pre_event is built by a scan from index 0 that skips segments while
\* point_a.time < mid_start - time_interval and then takes segments while
\* point_a.time <= mid_start; with strictly increasing timestamps it is
\* exactly lines[j..s], j the first index with point_a.time >= mid_start -
\* time_interval, whatever the neighbouring events are.
C9_PreWindow ==
    Parsed =>
        /\ RunsMatch
        /\ \A k \in 1..Len(eventList) :
               LET s == RunOf(k)[1]
                   mid_start == StartTime(s)
                   pre_start == mid_start - time_interval
                   j == CHOOSE i \in 1..s :
                            /\ StartTime(i) >= pre_start
                            /\ \A h \in 1..(i - 1) : StartTime(h) < pre_start
               IN  /\ \E m \in s..Len(lines) :
                          /\ eventList[k].pre_event = SubSeq(lines, j, m)
                          /\ \A i \in j..m : StartTime(i) <= mid_start
                          /\ m < Len(lines) => StartTime(m + 1) > mid_start
                   /\ StrictlyIncreasing(tcx_data.timestamps) =>
                          eventList[k].pre_event = SubSeq(lines, j, s)

\* C9 witness: strictly increasing timestamps, a later event whose pre
\* window starts after index 0 and reaches back into the previous event
C9_Witness ==
    /\ Parsed
    /\ RunsMatch
    /\ StrictlyIncreasing(tcx_data.timestamps)
    /\ \E k \in 2..Len(eventList) :
           LET s == RunOf(k)[1]
               n == Len(eventList[k].pre_event)
           IN  /\ n < s
               /\ s - n + 1 <= RunOf(k - 1)[2]

\* C10 as stated: for a run that starts at index 0 the pre-window scan stays
\* inside the sequence and pre_event is empty.
C10_Original ==
    /\ error # "IndexError"
    /\ Parsed =>
           /\ RunsMatch
           /\ \A k \in 1..Len(eventList) :
                  RunOf(k)[1] = 1 => eventList[k].pre_event = <<>>

\* C10 amended: for a run that starts at index 0 (and a non-negative
\* window) the pre-window scan stays inside the sequence, and pre_event is
\* not empty: it is the leading segments whose point_a.time equals that of
\* lines[0], so at least lines[0] itself.
C10_FirstEventPre ==
    /\ error # "IndexError"
    /\ Parsed =>
           /\ RunsMatch
           /\ \A k \in 1..Len(eventList) :
                  RunOf(k)[1] = 1 =>
                      \E m \in 1..Len(lines) :
                          /\ eventList[k].pre_event = SubSeq(lines, 1, m)
                          /\ \A i \in 1..m : StartTime(i) = StartTime(1)
                          /\ m < Len(lines) => StartTime(m + 1) > StartTime(1)

\* C10 witness: a run at index 0 of a longer track, with pre_event = lines[0]
C10_Witness ==
    /\ Parsed
    /\ Len(lines) >= 2
    /\ Len(eventList) >= 1
    /\ Sub(1)
    /\ eventList[1].pre_event = <<lines[1]>>

\* C7: __data_to_lines gives max(0, N-1) segments, segment k from samples k
\* and k+1; with N = 0 or N = 1 there are no segments and parse_events
\* returns no events and raises nothing.
C7_SegmentsFromSamples ==
    pc # "call" =>
        LET N == Len(tcx_data.positions)
            sample(k) == Point(tcx_data.positions[k][1],
                               tcx_data.positions[k][2],
                               tcx_data.timestamps[k])
        IN  /\ Len(lines) = IF N = 0 THEN 0 ELSE N - 1
            /\ \A k \in 1..Len(lines) :
                   /\ lines[k].point_a = sample(k)
                   /\ lines[k].point_b = sample(k + 1)
            /\ N <= 1 => (lines = <<>> /\ eventList = <<>> /\ error = "none")

\* C7 witness: a built track of several segments between different places
C7_Witness ==
    /\ pc # "call"
    /\ Len(lines) >= 3
    /\ lines[1].point_a.latitude # lines[1].point_b.latitude
    /\ lines[2].point_a.latitude # lines[2].point_b.latitude

\* C3: after classify_event with node list F on an event whose detail was
\* unset, the detail is set iff some (core segment, node) pair is closer
\* than 22 m; when set it is the detail built from the node of the pair
\* with the least distance, the first such pair in scan order on a tie.
C3_NearestFeature ==
    Len(classified_events) >= 1 =>
        LastClassified.event_detail =
            IF Near = {} THEN <<>>
            ELSE <<DetailOf(possible_intersections[FirstClosest[2]])>>

\* C3 witness: two different nodes tie for the least distance, within 22 m
C3_Witness ==
    /\ Len(classified_events) >= 1
    /\ LastClassified.event_detail # <<>>
    /\ \E p \in Closest \cap Near : \E q \in Closest \cap Near :
           possible_intersections[p[2]] # possible_intersections[q[2]]

\* C4: the detail attached for a matched node has that node's latitude as
\* its latitude and that node's longitude as its longitude, and type
\* INTERSECTION.
C4_DetailAtFeature ==
    (Len(classified_events) >= 1 /\ Near # {}) =>
        LET node == possible_intersections[FirstClosest[2]]
            detail == LastClassified.event_detail[1]
        IN  /\ LastClassified.event_detail # <<>>
            /\ detail.location.latitude = node.lat
            /\ detail.location.longitude = node.lon
            /\ detail.type = "INTERSECTION"

\* C5: a failing query for one event is not propagated to the caller of
\* events(lines, classify=True): the call never ends in the query's error.
C5_QueryFailureContained == ~(pc = "raised" /\ error = "QueryError")

====
